---- MODULE Spec2Model ----
(***************************************************************************)
(* pm4py/conformance.py: the conformance entry points.                     *)
(*                                                                         *)
(* Every entry point is a thin layer over collaborators that live outside  *)
(* this file (token replay, alignments, footprints, converters).  The      *)
(* model keeps, for one call at a time, the arguments of the call, the     *)
(* ordered list of collaborator invocations it has made (calls), the local *)
(* variables of the fitness cascade, and the outcome of the call.          *)
(* What a collaborator answers is an input: the verdicts of footprints and *)
(* replay are drawn when they are invoked, the alignment fitness of the    *)
(* trace is fixed with the arguments of the call.  An exception thrown by  *)
(* a collaborator is kept in `raised`, the list a diagnostics entry point  *)
(* hands back in `output`; __convert_to_fp runs its loop step by step.     *)
(***************************************************************************)
EXTENDS Integers, Sequences, FiniteSets, TLC

VARIABLES
    pc,             \* position of the running call: "idle", a cascade tier, "done"
    op,             \* entry point being executed
    inp,            \* arguments of the call (and what the collaborators would answer)
    calls,          \* collaborator invocations made by the call, in order
    model,          \* check_is_fitting: the local `model` after conversion
    trace,          \* check_is_fitting: the local `trace` after promotion
    fp_conf_res,    \* fp_conf_res["is_footprints_fit"]
    tbr_conf_res,   \* tbr_conf_res["trace_is_fit"]
    align_conf_res, \* align_conf_res["fitness"], in thousandths; -1 when unset
    result,         \* outcome of the call
    raised,         \* the exception a collaborator has thrown during the call, and who threw it
    output,         \* the list handed back by a diagnostics entry point
    fp_args         \* __convert_to_fp: the local `args`

vars == <<pc, op, inp, calls, model, trace, fp_conf_res, tbr_conf_res, align_conf_res,
          result, raised, output, fp_args>>

----------------------------------------------------------------------------
(* Bounds *)

MaxTraceLen == 2
MaxArgs == 4
MaxLogLen == 2
MaxCaseLen == 2
MaxTime == 3
MaxNest == 2

----------------------------------------------------------------------------
(* Values *)

\* xes_constants.DEFAULT_NAME_KEY, the default of every activity_key parameter
DEFAULT_NAME_KEY == "concept:name"

\* attribute names an event may carry an activity under
Keys == {DEFAULT_NAME_KEY, "org:role"}

Acts == {"a", "b"}

\* the float 1.0 of `fitness == 1.0`, fitness being kept in thousandths
FitnessOne == 1000

\* fitness values an alignment can report: 0.0, 0.999, 1.0
Fitnesses == {0, 999, FitnessOne}

\* type(log): the three accepted by the entry points, and two that are not
LogTypes == {"DataFrame", "EventLog", "EventStream", "Trace", "list"}

\* type(args[0]) of a model argument
ArgTypes == {"PetriNet", "dict", "Counter", "ProcessTree", "BPMN"}

\* an Event is a dict; it holds an activity under each attribute it has,
\* which need not include the one the call names as activity_key
Events == UNION {[S -> Acts] : S \in SUBSET Keys}

\* a Trace: a sequence of events
Traces == UNION {[1..n -> Events] : n \in 0..MaxTraceLen}

\* a variant: a plain sequence of activities
Variants == UNION {[1..n -> Acts] : n \in 0..MaxTraceLen}

\* the traces of a log, told apart by name
TraceIds == {"t1", "t2"}

\* a log as a diagnostics entry point receives it: its traces in order
Logs == UNION {[1..n -> TraceIds] : n \in 0..MaxLogLen}

\* the default of the zeta parameter, 1.0
ZetaDefault == 1

\* the zeta argument of a call: left out, or a number of standard deviations
ZetaArgs == {<<>>} \cup {<<z>> : z \in 0..2}

\* a case of the log: events with an activity and a timestamp, in time order
Cases ==
    UNION {{c \in [1..n -> [act : Acts, time : 0..MaxTime]] :
               \A i \in 1..(n - 1) : c[i].time <= c[i + 1].time}
           : n \in 0..MaxCaseLen}

\* a temporal profile: for some ordered pairs of activities, the mean and the
\* standard deviation of the time between them
Profiles ==
    {{}} \cup {{[a |-> a, b |-> b, mean |-> m, stdev |-> sd]} :
                   a \in Acts, b \in Acts, m \in 0..2, sd \in 0..1}

\* *args: only type(args[0]) and len(args) are inspected
ArgTuple(n, t) == [i \in 1..n |-> IF i = 1 THEN t ELSE "object"]

ArgTuples == {<<>>} \cup {ArgTuple(n, t) : n \in 1..MaxArgs, t \in ArgTypes}

Call(fn, variant, key, mp) == [fn |-> fn, variant |-> variant, key |-> key, mp |-> mp]

Return(v) == [kind |-> "return", val |-> v]
Raise(e) == [kind |-> "raise", val |-> e]
Pending == [kind |-> "none", val |-> "-"]

PyBool(b) == IF b THEN "True" ELSE "False"

\* a Python object as __convert_to_fp looks at it: its type and, for a tuple,
\* its elements
Object(type, items) == [type |-> type, items |-> items]

NoObject == Object("-", <<>>)

\* type() of an object that is not a tuple: footprints of a log (list),
\* footprints of a model (dict), anything else (a log, a model)
PlainTypes == {"list", "dict", "EventLog"}

\* objects nested in tuples of up to two elements, at most d deep
RECURSIVE Objects(_)
Objects(d) ==
    {Object(t, <<>>) : t \in PlainTypes}
        \cup (IF d = 0 THEN {}
              ELSE {Object("tuple", items) :
                       items \in UNION {[1..n -> Objects(d - 1)] : n \in 0..2}})

\* no collaborator has thrown
NoError == [by |-> "-", error |-> "-"]

\* the exception, if any, with which the collaborator `by` ended
Threw(by, out) ==
    IF out.kind = "raise" THEN [by |-> by, error |-> out.val] ELSE NoError

----------------------------------------------------------------------------
(* Collaborators outside conformance.py *)

\* pm4py.convert: what conversion can achieve for a model argument tuple.
\* A process tree converts to itself; a Petri net with its two markings is
\* already a Petri net; an empty or short argument tuple converts to nothing;
\* whatever is a tree can also be written as a net.
ConvertOracle(args, toTree, toNet) ==
    /\ (Len(args) = 0 => ~toTree /\ ~toNet)
    /\ (Len(args) > 0 /\ args[1] = "ProcessTree" => toTree)
    /\ (Len(args) > 0 /\ args[1] = "PetriNet" =>
            IF Len(args) >= 3 THEN toNet ELSE ~toTree /\ ~toNet)
    /\ (toTree => toNet)

\* pandas_utils.check_pandas_dataframe_columns: raises unless the three
\* configured columns are present in the table
check_pandas_dataframe_columns(columns) == columns

\* an engine reading the log under attribute `key` needs it in every event
Readable(t, key) == \A i \in 1..Len(t) : key \in DOMAIN t[i]

\* alignments: an activity that labels no transition of the model can only be
\* explained by a log move, which costs; such a trace has fitness below 1.0
AlignmentOracle(t, labels, fitness) ==
    (Readable(t, DEFAULT_NAME_KEY)
        /\ \E i \in 1..Len(t) : t[i][DEFAULT_NAME_KEY] \notin labels)
    => fitness < FitnessOne

\* what replay or alignment computes for one trace
TraceResult(t) == [of |-> t]

\* the serial engines work through the log front to back
SerialEngine(traces) == [i \in 1..Len(traces) |-> TraceResult(traces[i])]

\* the orders in which the workers of n traces can finish
Orders(n) == {f \in [1..n -> 1..n] : \A i, j \in 1..n : f[i] = f[j] => i = j}

\* the results of the workers in the order they finish, each with the index
\* of the trace it belongs to
Finished(traces, order) ==
    [k \in 1..Len(traces) |->
        [index |-> order[k], result |-> TraceResult(traces[order[k]])]]

\* mutant: results are taken as the workers finish
Reassemble_asCompleted(finished) ==
    [i \in 1..Len(finished) |-> finished[i].result]

\* the parallel engine puts every result back at the index of its trace
Reassemble(finished) ==
    [i \in 1..Len(finished) |->
        (CHOOSE f \in {finished[k] : k \in 1..Len(finished)} : f.index = i).result]

\* the list the engine invoked last in `cs` hands back
EngineOutput(cs, traces, order) ==
    IF cs # <<>> /\ cs[Len(cs)].variant = "apply_multiprocessing"
    THEN Reassemble(Finished(traces, order))
    ELSE SerialEngine(traces)

\* only the parallel engine has workers that finish in an order of their own
Scheduled(cs, order) ==
    \/ cs # <<>> /\ cs[Len(cs)].variant = "apply_multiprocessing"
    \/ order = [i \in DOMAIN order |-> i]

\* temporal profile conformance: the time between two events of a case is
\* allowed when it lies between AVERAGE - zeta * STDEV and AVERAGE + zeta * STDEV
Allowed(gap, e, zeta) ==
    /\ e.mean - zeta * e.stdev <= gap
    /\ gap <= e.mean + zeta * e.stdev

\* the deviations of one case: the positions i < j whose pair of activities
\* has an entry in the profile and whose time difference is not allowed
Deviations(case, profile, zeta) ==
    {ij \in (1..Len(case)) \X (1..Len(case)) :
        /\ ij[1] < ij[2]
        /\ \E e \in profile :
               /\ e.a = case[ij[1]].act
               /\ e.b = case[ij[2]].act
               /\ ~Allowed(case[ij[2]].time - case[ij[1]].time, e, zeta)}

\* the list of deviations the temporal engine returns for a log of one case,
\* zeta being the one of the configuration it was invoked with
TemporalOutput(cs, case, profile) ==
    IF cs # <<>> /\ cs[Len(cs)].fn = "temporal_profile_conformance"
    THEN <<[deviations |-> Deviations(case, profile, cs[Len(cs)].zeta)]>>
    ELSE <<>>

----------------------------------------------------------------------------
(* The log prologue shared by the entry points that take a log *)

\* mutant: a single Trace is let through as if it were a log
UnsupportedLogType_traceAllowed(log) ==
    log \notin {"DataFrame", "EventLog", "EventStream", "Trace"}

\* type(log) not in [pd.DataFrame, EventLog, EventStream]
UnsupportedLogType(log) == log \notin {"DataFrame", "EventLog", "EventStream"}

\* type check, column check for tables, get_properties: the calls made and
\* the exception raised, if any
LogPrologue(log, columns, activity_key) ==
    IF UnsupportedLogType(log)
    THEN [calls |-> <<>>, result |-> Raise("log_type")]
    ELSE LET checked == IF log = "DataFrame"
                        THEN <<Call("check_pandas_dataframe_columns", "-", activity_key, "-")>>
                        ELSE <<>>
         IN  IF log = "DataFrame" /\ ~check_pandas_dataframe_columns(columns)
             THEN [calls |-> checked, result |-> Raise("columns")]
             ELSE [calls |-> checked \o <<Call("get_properties", "-", activity_key, "-")>>,
                   result |-> Pending]

\* mutant: an exception of the engine is caught and an empty answer returned
Forward_defaulted(p, engineCall, out) ==
    IF p.result.kind = "raise" THEN p
    ELSE [calls |-> p.calls \o <<engineCall>>,
          result |-> IF out.kind = "raise" THEN Return("diagnostics") ELSE out]

\* prologue, then one engine call whose outcome `out` is the outcome of the call
Forward(p, engineCall, out) ==
    IF p.result.kind = "raise" THEN p
    ELSE [calls |-> p.calls \o <<engineCall>>, result |-> out]

----------------------------------------------------------------------------
(* Diagnostics *)

conformance_diagnostics_token_based_replay(log, columns, activity_key, out) ==
    Forward(LogPrologue(log, columns, activity_key),
            Call("token_replay", "apply", activity_key, "-"), out)

\* mutant: the flag is dropped and the serial variant always requested
AlignmentVariant_serial(multi_processing) == "apply"

\* alignments.apply_multiprocessing if multi_processing else alignments.apply
AlignmentVariant(multi_processing) ==
    IF multi_processing THEN "apply_multiprocessing" ELSE "apply"

\* mutant: a Counter is not taken for a frequency graph
ModelClass_dictOnly(args) ==
    IF Len(args) = 3 /\ args[1] = "PetriNet" THEN "petri_net"
    ELSE IF Len(args) = 3 /\ args[1] = "dict" THEN "dfg"
    ELSE IF Len(args) = 1 /\ args[1] = "ProcessTree" THEN "process_tree"
    ELSE "unrecognized"

\* the if/elif ladder over len(args) and type(args[0])
ModelClass(args) ==
    IF Len(args) = 3 /\ args[1] = "PetriNet" THEN "petri_net"
    ELSE IF Len(args) = 3 /\ (args[1] = "dict" \/ args[1] = "Counter") THEN "dfg"
    ELSE IF Len(args) = 1 /\ args[1] = "ProcessTree" THEN "process_tree"
    ELSE "unrecognized"

conformance_diagnostics_alignments(log, columns, args, multi_processing, activity_key, toNet, out) ==
    LET p == LogPrologue(log, columns, activity_key)
        class == ModelClass(args)
    IN  IF p.result.kind = "raise" THEN p
        ELSE IF class = "petri_net"
        THEN Forward(p, Call("alignments.petri_net", AlignmentVariant(multi_processing),
                             activity_key, "-"), out)
        ELSE IF class = "dfg"
        THEN Forward(p, Call("alignments.dfg", "apply", activity_key, "-"), out)
        ELSE IF class = "process_tree"
        THEN Forward(p, Call("alignments.process_tree", AlignmentVariant(multi_processing),
                             activity_key, "-"), out)
        ELSE \* try to convert to Petri net
             LET q == [calls |-> p.calls \o <<Call("convert_to_petri_net", "-", "-", "-")>>,
                       result |-> Pending]
             IN  IF ~toNet THEN [q EXCEPT !.result = Raise("convert")]
                 ELSE Forward(q, Call("alignments.petri_net", AlignmentVariant(multi_processing),
                                      activity_key, "-"), out)

----------------------------------------------------------------------------
(* Evaluation and the two standalone analyzers *)

fitness_token_based_replay(log, columns, activity_key, out) ==
    Forward(LogPrologue(log, columns, activity_key),
            Call("replay_fitness", "TOKEN_BASED", activity_key, "-"), out)

fitness_alignments(log, columns, multi_processing, activity_key, out) ==
    Forward(LogPrologue(log, columns, activity_key),
            Call("replay_fitness", "ALIGNMENT_BASED", activity_key, PyBool(multi_processing)), out)

precision_token_based_replay(log, columns, activity_key, out) ==
    Forward(LogPrologue(log, columns, activity_key),
            Call("precision_evaluator", "ETCONFORMANCE_TOKEN", activity_key, "-"), out)

precision_alignments(log, columns, multi_processing, activity_key, out) ==
    Forward(LogPrologue(log, columns, activity_key),
            Call("precision_evaluator", "ALIGN_ETCONFORMANCE", activity_key, PyBool(multi_processing)), out)

\* mutant: the caller's zeta is dropped and the default always used
EffectiveZeta_defaultOnly(zetaArg) == ZetaDefault

\* zeta: float = 1.0
EffectiveZeta(zetaArg) == IF zetaArg = <<>> THEN ZetaDefault ELSE zetaArg[1]

\* properties["zeta"] = zeta
WithZeta(c, zeta) ==
    [fn |-> c.fn, variant |-> c.variant, key |-> c.key, mp |-> c.mp, zeta |-> zeta]

conformance_temporal_profile(log, columns, activity_key, zetaArg, out) ==
    Forward(LogPrologue(log, columns, activity_key),
            WithZeta(Call("temporal_profile_conformance", "apply", activity_key, "-"),
                     EffectiveZeta(zetaArg)),
            out)

conformance_log_skeleton(log, columns, activity_key, out) ==
    Forward(LogPrologue(log, columns, activity_key),
            Call("log_skeleton_conformance", "apply", activity_key, "-"), out)

----------------------------------------------------------------------------
(* State *)

NoInput ==
    [log |-> "EventLog", columns |-> TRUE, args |-> <<>>, toTree |-> FALSE,
     toNet |-> FALSE, multi_processing |-> FALSE, activity_key |-> DEFAULT_NAME_KEY,
     traceKind |-> "-", traceArg |-> <<>>, labels |-> {}, fitness |-> 0,
     traces |-> <<>>, order |-> <<>>, zeta |-> <<>>, case |-> <<>>, profile |-> {},
     fpArg |-> NoObject]

Init ==
    /\ pc = "idle"
    /\ op = "none"
    /\ inp = NoInput
    /\ calls = <<>>
    /\ model = "-"
    /\ trace = <<>>
    /\ fp_conf_res = "-"
    /\ tbr_conf_res = "-"
    /\ align_conf_res = -1
    /\ result = Pending
    /\ raised = NoError
    /\ output = <<>>
    /\ fp_args = NoObject

CascadeLocals == <<model, trace, fp_conf_res, tbr_conf_res, align_conf_res>>

\* what an engine invoked by an entry point may do: answer, or raise
EngineOutcomes == {Return("diagnostics"), Raise("engine")}

\* what the last collaborator invoked by a forwarding entry point threw: the
\* column check and the conversion fail as the arguments make them fail, an
\* engine fails when its outcome `out` is an exception
Thrown(cs, out) ==
    IF cs = <<>> THEN NoError
    ELSE LET last == cs[Len(cs)].fn
         IN  IF last = "check_pandas_dataframe_columns"
             THEN [by |-> last, error |-> "columns"]
             ELSE IF last = "convert_to_petri_net"
             THEN [by |-> last, error |-> "convert"]
             ELSE Threw(last, out)

\* one complete call of an entry point that is a single forwarding step;
\* `list` is the list the engine hands back when it returns
Complete(name, input, r, out, list) ==
    /\ pc' = "done"
    /\ op' = name
    /\ inp' = input
    /\ calls' = r.calls
    /\ result' = r.result
    /\ raised' = Thrown(r.calls, out)
    /\ output' = IF r.result.kind = "return" THEN list ELSE <<>>
    /\ UNCHANGED <<CascadeLocals, fp_args>>

----------------------------------------------------------------------------
(* Entry points that take a log *)

DiagnosticsTokenBasedReplay ==
    /\ pc = "idle"
    /\ \E log \in LogTypes, columns \in BOOLEAN, key \in Keys, out \in EngineOutcomes,
          traces \in Logs :
        Complete("conformance_diagnostics_token_based_replay",
                 [NoInput EXCEPT !.log = log, !.columns = columns, !.activity_key = key,
                                 !.traces = traces, !.order = [i \in 1..Len(traces) |-> i]],
                 conformance_diagnostics_token_based_replay(log, columns, key, out),
                 out, SerialEngine(traces))

DiagnosticsAlignments ==
    /\ pc = "idle"
    /\ \E log \in LogTypes, columns \in BOOLEAN, key \in Keys, out \in EngineOutcomes,
       args \in ArgTuples, mp \in BOOLEAN, toNet \in BOOLEAN, traces \in Logs :
        \E order \in Orders(Len(traces)) :
            LET r == conformance_diagnostics_alignments(log, columns, args, mp, key, toNet, out)
            IN  /\ \E toTree \in BOOLEAN : ConvertOracle(args, toTree, toNet)
                /\ Scheduled(r.calls, order)
                /\ Complete("conformance_diagnostics_alignments",
                            [NoInput EXCEPT !.log = log, !.columns = columns,
                                            !.activity_key = key, !.args = args,
                                            !.multi_processing = mp, !.toNet = toNet,
                                            !.traces = traces, !.order = order],
                            r, out, EngineOutput(r.calls, traces, order))

FitnessTokenBasedReplay ==
    /\ pc = "idle"
    /\ \E log \in LogTypes, columns \in BOOLEAN, key \in Keys, out \in EngineOutcomes :
        Complete("fitness_token_based_replay",
                 [NoInput EXCEPT !.log = log, !.columns = columns, !.activity_key = key],
                 fitness_token_based_replay(log, columns, key, out),
                 out, <<>>)

FitnessAlignments ==
    /\ pc = "idle"
    /\ \E log \in LogTypes, columns \in BOOLEAN, key \in Keys, out \in EngineOutcomes,
       mp \in BOOLEAN :
        Complete("fitness_alignments",
                 [NoInput EXCEPT !.log = log, !.columns = columns, !.activity_key = key,
                                 !.multi_processing = mp],
                 fitness_alignments(log, columns, mp, key, out),
                 out, <<>>)

PrecisionTokenBasedReplay ==
    /\ pc = "idle"
    /\ \E log \in LogTypes, columns \in BOOLEAN, key \in Keys, out \in EngineOutcomes :
        Complete("precision_token_based_replay",
                 [NoInput EXCEPT !.log = log, !.columns = columns, !.activity_key = key],
                 precision_token_based_replay(log, columns, key, out),
                 out, <<>>)

PrecisionAlignments ==
    /\ pc = "idle"
    /\ \E log \in LogTypes, columns \in BOOLEAN, key \in Keys, out \in EngineOutcomes,
       mp \in BOOLEAN :
        Complete("precision_alignments",
                 [NoInput EXCEPT !.log = log, !.columns = columns, !.activity_key = key,
                                 !.multi_processing = mp],
                 precision_alignments(log, columns, mp, key, out),
                 out, <<>>)

ConformanceTemporalProfile ==
    /\ pc = "idle"
    /\ \E log \in LogTypes, columns \in BOOLEAN, key \in Keys, out \in EngineOutcomes,
          zetaArg \in ZetaArgs, case \in Cases, profile \in Profiles :
        LET r == conformance_temporal_profile(log, columns, key, zetaArg, out)
        IN  \* the case and the profile matter only to a call that returns a list
            /\ r.result.kind = "return" \/ (case = <<>> /\ profile = {})
            /\ Complete("conformance_temporal_profile",
                        [NoInput EXCEPT !.log = log, !.columns = columns,
                                        !.activity_key = key, !.zeta = zetaArg,
                                        !.case = case, !.profile = profile],
                        r, out, TemporalOutput(r.calls, case, profile))

ConformanceLogSkeleton ==
    /\ pc = "idle"
    /\ \E log \in LogTypes, columns \in BOOLEAN, key \in Keys, out \in EngineOutcomes :
        Complete("conformance_log_skeleton",
                 [NoInput EXCEPT !.log = log, !.columns = columns, !.activity_key = key],
                 conformance_log_skeleton(log, columns, key, out),
                 out, <<>>)

----------------------------------------------------------------------------
(* check_is_fitting: model conversion, trace promotion, dispatch *)

\* trace = Trace(); for act in activities: trace.append(Event({activity_key: act}))
Promote(activities, activity_key) ==
    [i \in 1..Len(activities) |-> [k \in {activity_key} |-> activities[i]]]

\* the arguments a call of check_is_fitting can be given: args[0] is a Trace,
\* a variant, some other object, or is missing because the call has no
\* positional argument at all; trace = args[0] then raises IndexError
CallCheckIsFitting ==
    /\ pc = "idle"
    /\ \E key \in Keys, kind \in {"Trace", "variant", "other", "missing"},
          args \in ArgTuples, toTree \in BOOLEAN, toNet \in BOOLEAN,
          labels \in SUBSET Acts, fitness \in Fitnesses :
        \E t \in (IF kind = "Trace" THEN Traces
                  ELSE IF kind = "variant" THEN Variants ELSE {<<>>}) :
            /\ ConvertOracle(args, toTree, toNet)
            /\ AlignmentOracle(IF kind = "variant" THEN Promote(t, key) ELSE t,
                               labels, fitness)
            /\ kind = "missing" => args = <<>> /\ labels = {} /\ fitness = 0
            /\ inp' = [NoInput EXCEPT !.activity_key = key, !.traceKind = kind,
                                      !.traceArg = t, !.args = args, !.toTree = toTree,
                                      !.toNet = toNet, !.labels = labels,
                                      !.fitness = fitness]
            /\ IF kind = "missing"
               THEN pc' = "done" /\ result' = Raise("IndexError")
               ELSE pc' = "convert_model" /\ UNCHANGED result
    /\ op' = "check_is_fitting"
    /\ UNCHANGED <<calls, raised, output, fp_args, CascadeLocals>>

\* mutant: the second conversion failure is swallowed too and the raw
\* argument tuple is kept as the model
ConvertedModel_swallowed(toTree, toNet) ==
    IF toTree THEN "ProcessTree" ELSE IF toNet THEN "PetriNet" ELSE "tuple"

\* try: convert_to_process_tree(*model)  except: convert_to_petri_net(*model)
ConvertedModel(toTree, toNet) ==
    IF toTree THEN "ProcessTree" ELSE IF toNet THEN "PetriNet" ELSE "-"

ConvertModel ==
    /\ pc = "convert_model"
    /\ model' = ConvertedModel(inp.toTree, inp.toNet)
    /\ calls' = calls \o <<Call("convert_to_process_tree", "-", "-", "-")>>
                      \o (IF inp.toTree THEN <<>>
                          ELSE <<Call("convert_to_petri_net", "-", "-", "-")>>)
    /\ IF model' = "-"
       THEN pc' = "done" /\ result' = Raise("convert")
       ELSE pc' = "promote_trace" /\ UNCHANGED result
    /\ raised' = IF ~inp.toTree /\ ~inp.toNet
                 THEN [by |-> "convert_to_petri_net", error |-> "convert"]
                 ELSE NoError
    /\ UNCHANGED <<op, inp, trace, fp_conf_res, tbr_conf_res, align_conf_res, output, fp_args>>

\* mutant: a converted Petri net is sent down the process tree branch as well
Dispatch_alwaysTree(m) ==
    IF m = "ProcessTree" \/ m = "PetriNet" THEN "tree_footprints" ELSE "return_none"

\* isinstance(model, ProcessTree) / isinstance(model, tuple) and isinstance(model[0], PetriNet)
Dispatch(m) ==
    IF m = "ProcessTree" THEN "tree_footprints"
    ELSE IF m = "PetriNet" THEN "net_labels"
    ELSE "return_none"

PromoteTrace ==
    /\ pc = "promote_trace"
    /\ calls' = IF inp.traceKind = "Trace" THEN calls
                ELSE calls \o <<Call("get_activities_from_variant", "-", "-", "-")>>
    /\ IF inp.traceKind = "other"
       THEN \* neither a Trace nor a variant: the variant reader fails on it
            /\ pc' = "done"
            /\ result' = Raise("variant")
            /\ raised' = [by |-> "get_activities_from_variant", error |-> "variant"]
            /\ UNCHANGED trace
       ELSE /\ trace' = IF inp.traceKind = "Trace" THEN inp.traceArg
                        ELSE Promote(inp.traceArg, inp.activity_key)
            /\ UNCHANGED raised
            /\ IF Dispatch(model) = "return_none"
               THEN pc' = "done" /\ result' = Return("None")
               ELSE pc' = Dispatch(model) /\ UNCHANGED result
    /\ UNCHANGED <<op, inp, model, fp_conf_res, tbr_conf_res, align_conf_res, output, fp_args>>

\* a cascade tier that ends the call
Verdict(r) == pc' = "done" /\ result' = r

----------------------------------------------------------------------------
(* __check_is_fit_process_tree *)

\* mutant: the footprint verdict is computed and then ignored
AfterFootprints_ignored(is_footprints_fit) == "tree_replay"

\* if not fp_conf_res["is_footprints_fit"]: return False
AfterFootprints(is_footprints_fit) ==
    IF is_footprints_fit = "False" THEN "return_false" ELSE "tree_replay"

\* mutant: a fit replay is not trusted and alignment runs anyway
AfterReplay_escalates(trace_is_fit) == "align"

\* if tbr_conf_res["trace_is_fit"]: return True
AfterReplay(trace_is_fit) ==
    IF trace_is_fit = "True" THEN "return_true" ELSE "align"

\* mutant: fitness compared with a tolerance instead of exactly
AlignmentVerdict_tolerant(fitness) == fitness >= FitnessOne - 1

\* align_conf_res["fitness"] == 1.0
AlignmentVerdict(fitness) == fitness = FitnessOne

\* what a collaborator reading the single-trace log under the default key
\* may answer: it fails on an event without that attribute
Answers(t, values) ==
    IF Readable(t, DEFAULT_NAME_KEY)
    THEN {Return(v) : v \in values} \cup {Raise("engine")}
    ELSE {Raise("KeyError")}

\* discovery on the tree may fail ("discovery"), discovery on the log fails on
\* an event without the default key, the comparison may fail ("engine")
CheckFootprints ==
    /\ pc = "tree_footprints"
    /\ \E out \in Answers(trace, {"True", "False"}) \cup {Raise("discovery")} :
        /\ calls' = calls \o <<Call("discover_footprints", "tree", "-", "-")>>
                          \o (IF out.val = "discovery" THEN <<>>
                              ELSE <<Call("discover_footprints", "log", DEFAULT_NAME_KEY, "-")>>)
                          \o (IF out.val \in {"discovery", "KeyError"} THEN <<>>
                              ELSE <<Call("footprints_conformance", "TRACE_EXTENSIVE", "-", "-")>>)
        /\ raised' = Threw(IF out.val \in {"discovery", "KeyError"}
                           THEN "discover_footprints" ELSE "footprints_conformance", out)
        /\ IF out.kind = "raise"
           THEN Verdict(out) /\ UNCHANGED fp_conf_res
           ELSE /\ fp_conf_res' = out.val
                /\ IF AfterFootprints(out.val) = "return_false"
                   THEN Verdict(Return("False"))
                   ELSE pc' = "tree_replay" /\ UNCHANGED result
    /\ UNCHANGED <<op, inp, model, trace, tbr_conf_res, align_conf_res, output, fp_args>>

\* the conversion of the tree may fail ("convert"); otherwise replay runs
ReplayTree ==
    /\ pc = "tree_replay"
    /\ \E out \in Answers(trace, {"True", "False"}) \cup {Raise("convert")} :
        LET r == conformance_diagnostics_token_based_replay(
                     "EventLog", TRUE, DEFAULT_NAME_KEY, out)
        IN  IF out.val = "convert"
            THEN /\ calls' = calls \o <<Call("convert_to_petri_net", "tree", "-", "-")>>
                 /\ raised' = Threw("convert_to_petri_net", out)
                 /\ Verdict(out)
                 /\ UNCHANGED tbr_conf_res
            ELSE /\ calls' = calls \o <<Call("convert_to_petri_net", "tree", "-", "-")>>
                                   \o r.calls
                 /\ raised' = Threw("token_replay", out)
                 /\ IF r.result.kind = "raise"
                    THEN Verdict(r.result) /\ UNCHANGED tbr_conf_res
                    ELSE /\ tbr_conf_res' = r.result.val
                         /\ IF AfterReplay(r.result.val) = "return_true"
                            THEN Verdict(Return("True"))
                            ELSE pc' = "tree_align" /\ UNCHANGED result
    /\ UNCHANGED <<op, inp, model, trace, fp_conf_res, align_conf_res, output, fp_args>>

AlignTree ==
    /\ pc = "tree_align"
    /\ \E out \in Answers(trace, {"diagnostics"}) :
        LET r == conformance_diagnostics_alignments(
                     "EventLog", TRUE, ArgTuple(1, "ProcessTree"), FALSE,
                     DEFAULT_NAME_KEY, TRUE, out)
        IN  /\ calls' = calls \o r.calls
            /\ raised' = Threw("alignments.process_tree", out)
            /\ IF r.result.kind = "raise"
               THEN Verdict(r.result) /\ UNCHANGED align_conf_res
               ELSE /\ align_conf_res' = inp.fitness
                    /\ Verdict(Return(PyBool(AlignmentVerdict(inp.fitness))))
    /\ UNCHANGED <<op, inp, model, trace, fp_conf_res, tbr_conf_res, output, fp_args>>

----------------------------------------------------------------------------
(* __check_is_fit_petri_net *)

\* x[activity_key] succeeds for every x in trace
Subscriptable(t, activity_key) == \A i \in 1..Len(t) : activity_key \in DOMAIN t[i]

\* set([x[activity_key] for x in trace])
ActivitiesTrace(t, activity_key) == {t[i][activity_key] : i \in 1..Len(t)}

\* mutant: the difference taken the wrong way round
Diff_reversed(activities_trace, activities_model) == activities_model \ activities_trace

\* activities_trace.difference(activities_model)
Diff(activities_trace, activities_model) == activities_trace \ activities_model

\* mutant: the label check is made and replay runs whatever it found
AfterLabels_ignored(diff) == "net_replay"

\* if diff: return False
AfterLabels(diff) == IF diff # {} THEN "return_false" ELSE "net_replay"

\* an event without the attribute activity_key makes x[activity_key] raise
\* KeyError, in conformance.py itself
CheckLabels ==
    /\ pc = "net_labels"
    /\ IF ~Subscriptable(trace, inp.activity_key)
       THEN Verdict(Raise("KeyError"))
       ELSE IF AfterLabels(Diff(ActivitiesTrace(trace, inp.activity_key), inp.labels))
                   = "return_false"
       THEN Verdict(Return("False"))
       ELSE pc' = "net_replay" /\ UNCHANGED result
    /\ UNCHANGED <<op, inp, calls, CascadeLocals, raised, output, fp_args>>

ReplayNet ==
    /\ pc = "net_replay"
    /\ \E out \in Answers(trace, {"True", "False"}) :
        LET r == conformance_diagnostics_token_based_replay(
                     "EventLog", TRUE, DEFAULT_NAME_KEY, out)
        IN  /\ calls' = calls \o r.calls
            /\ raised' = Threw("token_replay", out)
            /\ IF r.result.kind = "raise"
               THEN Verdict(r.result) /\ UNCHANGED tbr_conf_res
               ELSE /\ tbr_conf_res' = r.result.val
                    /\ IF AfterReplay(r.result.val) = "return_true"
                       THEN Verdict(Return("True"))
                       ELSE pc' = "net_align" /\ UNCHANGED result
    /\ UNCHANGED <<op, inp, model, trace, fp_conf_res, align_conf_res, output, fp_args>>

AlignNet ==
    /\ pc = "net_align"
    /\ \E out \in Answers(trace, {"diagnostics"}) :
        LET r == conformance_diagnostics_alignments(
                     "EventLog", TRUE, ArgTuple(3, "PetriNet"), FALSE,
                     DEFAULT_NAME_KEY, TRUE, out)
        IN  /\ calls' = calls \o r.calls
            /\ raised' = Threw("alignments.petri_net", out)
            /\ IF r.result.kind = "raise"
               THEN Verdict(r.result) /\ UNCHANGED align_conf_res
               ELSE /\ align_conf_res' = inp.fitness
                    /\ Verdict(Return(PyBool(AlignmentVerdict(inp.fitness))))
    /\ UNCHANGED <<op, inp, model, trace, fp_conf_res, tbr_conf_res, output, fp_args>>

----------------------------------------------------------------------------
(* __convert_to_fp *)

\* __convert_to_fp(x): the parameter *args holds the one-element tuple (x,)
CallConvertToFp ==
    /\ pc = "idle"
    /\ \E x \in Objects(MaxNest) :
        /\ inp' = [NoInput EXCEPT !.fpArg = x]
        /\ fp_args' = Object("tuple", <<x>>)
    /\ pc' = "fp_while"
    /\ op' = "__convert_to_fp"
    /\ UNCHANGED <<calls, result, raised, output, CascadeLocals>>

\* what discover_footprints may do: return footprints, or raise
DiscoveryOutcomes == {Return("fp"), Raise("engine")}

\* fp = pm4py.discover_footprints(...); return fp
Discover(how) ==
    \E out \in DiscoveryOutcomes :
        /\ calls' = calls \o <<Call("discover_footprints", how, "-", "-")>>
        /\ raised' = Threw("discover_footprints", out)
        /\ Verdict(out)
        /\ UNCHANGED fp_args

\* if len(args) == 1: args = args[0]  else: discover_footprints(*args)
WhileBody(args) == IF Len(args.items) = 1 THEN "unwrap" ELSE "discover"

\* one iteration of `while type(args) is tuple`
FpWhile ==
    /\ pc = "fp_while"
    /\ fp_args.type = "tuple"
    /\ IF WhileBody(fp_args) = "unwrap"
       THEN /\ fp_args' = fp_args.items[1]
            /\ UNCHANGED <<pc, calls, result, raised>>
       ELSE Discover("*args")
    /\ UNCHANGED <<op, inp, output, CascadeLocals>>

\* mutant: a list is not taken for footprints
IsFootprints_dictOnly(args) == args.type = "dict"

\* type(args) is list or type(args) is dict
IsFootprints(args) == args.type = "list" \/ args.type = "dict"

\* after the loop: footprints are returned as they are, anything else is
\* handed to discovery
FpReturn ==
    /\ pc = "fp_while"
    /\ fp_args.type # "tuple"
    /\ IF IsFootprints(fp_args)
       THEN /\ Verdict(Return("args"))
            /\ UNCHANGED <<calls, raised, fp_args>>
       ELSE Discover("args")
    /\ UNCHANGED <<op, inp, output, CascadeLocals>>

----------------------------------------------------------------------------
(* Specification *)

\* the call has returned or raised; the next call starts from scratch
Finish ==
    /\ pc = "done"
    /\ pc' = "idle"
    /\ op' = "none"
    /\ inp' = NoInput
    /\ calls' = <<>>
    /\ model' = "-"
    /\ trace' = <<>>
    /\ fp_conf_res' = "-"
    /\ tbr_conf_res' = "-"
    /\ align_conf_res' = -1
    /\ result' = Pending
    /\ raised' = NoError
    /\ output' = <<>>
    /\ fp_args' = NoObject

Next ==
    \/ DiagnosticsTokenBasedReplay
    \/ DiagnosticsAlignments
    \/ FitnessTokenBasedReplay
    \/ FitnessAlignments
    \/ PrecisionTokenBasedReplay
    \/ PrecisionAlignments
    \/ ConformanceTemporalProfile
    \/ ConformanceLogSkeleton
    \/ CallCheckIsFitting
    \/ ConvertModel
    \/ PromoteTrace
    \/ CheckFootprints
    \/ ReplayTree
    \/ AlignTree
    \/ CheckLabels
    \/ ReplayNet
    \/ AlignNet
    \/ CallConvertToFp
    \/ FpWhile
    \/ FpReturn
    \/ Finish

Spec == Init /\ [][Next]_vars

----------------------------------------------------------------------------
(* Vocabulary of the properties *)

Fitting == op = "check_is_fitting"

Has(fn) == \E i \in 1..Len(calls) : calls[i].fn = fn

AlignmentEngines == {"alignments.petri_net", "alignments.dfg", "alignments.process_tree"}

HasAlignment == \E i \in 1..Len(calls) : calls[i].fn \in AlignmentEngines

OnTreePath == Fitting /\ model = "ProcessTree"

OnNetPath == Fitting /\ model = "PetriNet"

----------------------------------------------------------------------------
(* Cascade soundness *)

\* C1: on the hierarchical path, once footprint comparison has reported the
\* trace as not footprint-fit the call is over with the verdict False, and
\* neither replay nor alignment has been consulted, whatever they would say.
C1_FootprintsNotFitReturnsFalse ==
    OnTreePath /\ fp_conf_res = "False" =>
        /\ pc = "done"
        /\ result = Return("False")
        /\ ~Has("token_replay")
        /\ ~HasAlignment

\* footprints said not fit for a trace whose alignment fitness is 1.0
C1_Witness ==
    /\ OnTreePath /\ pc = "done"
    /\ fp_conf_res = "False"
    /\ inp.fitness = FitnessOne
    /\ Len(trace) > 0

\* C2: on the hierarchical path, once footprints have reported fit and replay
\* has reported the trace as fit, the call is over with the verdict True and
\* alignment has not been consulted, whatever fitness it would compute.
C2_ReplayFitReturnsTrue ==
    OnTreePath /\ fp_conf_res = "True" /\ tbr_conf_res = "True" =>
        /\ pc = "done"
        /\ result = Return("True")
        /\ ~HasAlignment

\* replay said fit for a trace whose alignment fitness is below 1.0
C2_Witness ==
    /\ OnTreePath /\ pc = "done"
    /\ fp_conf_res = "True" /\ tbr_conf_res = "True"
    /\ inp.fitness < FitnessOne
    /\ result = Return("True")

\* C3: on both paths, when replay has reported not fit (footprints having
\* reported fit or been skipped, the label check having passed) and alignment
\* has answered, the verdict is True exactly when the fitness is exactly 1.0.
C3_AlignmentDecides ==
    Fitting /\ pc = "done" /\ tbr_conf_res = "False" /\ result.kind = "return" =>
        /\ HasAlignment
        /\ align_conf_res = inp.fitness
        /\ result.val \in {"True", "False"}
        /\ (result.val = "True" <=> align_conf_res = FitnessOne)

\* alignment reported a fitness just below 1.0 and the verdict is False
C3_Witness ==
    /\ Fitting /\ pc = "done"
    /\ tbr_conf_res = "False"
    /\ align_conf_res = FitnessOne - 1
    /\ result = Return("False")

\* C4: the cascade loses no correctness.  Whenever footprints have not called
\* a trace of fitness 1.0 unfit and replay has not called a trace of fitness
\* below 1.0 fit, a returned verdict (label shortcut included, either path)
\* is the verdict of alignment alone on the same trace: fitness == 1.0.
C4_CascadeEqualsAlignment ==
    /\ Fitting /\ pc = "done" /\ result.kind = "return"
    /\ Readable(trace, DEFAULT_NAME_KEY)
    /\ (fp_conf_res = "False" => inp.fitness < FitnessOne)
    /\ (tbr_conf_res = "True" => inp.fitness = FitnessOne)
    => result.val = PyBool(inp.fitness = FitnessOne)

----------------------------------------------------------------------------
(* The procedural path *)

\* the running call has gone through the statements of the label check
LabelsReached ==
    OnNetPath /\ inp.traceKind # "other" /\ pc \in {"net_replay", "net_align", "done"}

\* every event of the trace carries the configured activity attribute
KeyedTrace == \A i \in 1..Len(trace) : inp.activity_key \in DOMAIN trace[i]

\* the label check of the running call has been evaluated
LabelsChecked == LabelsReached /\ KeyedTrace

\* the activities the events of the trace hold under the configured key
TraceActivities ==
    {trace[i][inp.activity_key] :
        i \in {j \in 1..Len(trace) : inp.activity_key \in DOMAIN trace[j]}}

\* trace activities (under the configured key) that label no transition
MissingLabels == TraceActivities \ inp.labels

\* what C5 says the label check leads to
LabelOutcome ==
    IF MissingLabels # {}
    THEN /\ pc = "done"
         /\ result = Return("False")
         /\ ~Has("token_replay")
         /\ ~HasAlignment
    ELSE pc \in {"net_align", "done"} => Has("token_replay")

\* C5 as stated, for whatever Trace the call is given: on the procedural
\* path, a trace activity that is no transition label ends the call with
\* False at once, replay and alignment never invoked; if every trace activity
\* is a label, replay is invoked.
C5_LabelShortcutAnyTrace == LabelsReached => LabelOutcome

\* C5, for a trace whose events all carry the configured activity attribute:
\* on the procedural path, a trace activity that is no transition label ends
\* the call with False at once, replay and alignment never invoked; if every
\* trace activity is a label, replay is invoked.
C5_LabelShortcut == LabelsChecked => LabelOutcome

\* a two-event trace with one known and one unknown activity was rejected
C5_Witness ==
    /\ LabelsChecked /\ pc = "done"
    /\ Len(trace) = 2
    /\ MissingLabels # {}
    /\ MissingLabels # TraceActivities
    /\ result = Return("False")

\* C6 as stated: whenever the model handed to check_is_fitting is a Petri net
\* with its two markings, no footprint discovery or comparison is invoked.
C6_PetriNetArgumentSkipsFootprints ==
    Fitting /\ Len(inp.args) = 3 /\ inp.args[1] = "PetriNet" =>
        ~Has("discover_footprints") /\ ~Has("footprints_conformance")

\* C6 amended: when the model does not convert to a process tree and the call
\* runs on the Petri net obtained instead, no footprint discovery or
\* comparison is ever invoked, and alignment is only invoked after replay.
C6_NetPathSkipsFootprints ==
    OnNetPath =>
        /\ ~Has("discover_footprints")
        /\ ~Has("footprints_conformance")
        /\ \A i \in 1..Len(calls) :
               calls[i].fn \in AlignmentEngines =>
                   \E j \in 1..(i - 1) : calls[j].fn = "token_replay"

\* a Petri net argument that is no process tree went through replay and
\* alignment
C6_Witness ==
    /\ OnNetPath /\ pc = "done"
    /\ Len(inp.args) = 3 /\ inp.args[1] = "PetriNet"
    /\ Has("token_replay") /\ HasAlignment

----------------------------------------------------------------------------
(* The router: conformance_diagnostics_alignments *)

Routing == op = "conformance_diagnostics_alignments" /\ pc = "done"

\* the log passed the type check and, for a table, the column check
LogAccepted ==
    /\ inp.log \in {"DataFrame", "EventLog", "EventStream"}
    /\ (inp.log = "DataFrame" => inp.columns)

IsAlignmentCall(c) == c.fn \in AlignmentEngines

AlignmentCalls == SelectSeq(calls, IsAlignmentCall)

\* the engine the model arguments belong to, as the contract words it
ExpectedEngine(args) ==
    IF Len(args) = 3 /\ args[1] = "PetriNet" THEN "alignments.petri_net"
    ELSE IF Len(args) = 3 /\ args[1] \in {"dict", "Counter"} THEN "alignments.dfg"
    ELSE IF Len(args) = 1 /\ args[1] = "ProcessTree" THEN "alignments.process_tree"
    ELSE "unrecognized"

\* C7: a call whose log is accepted forwards exactly one call, to the engine
\* of the class of its model arguments, without conversion; arguments of any
\* other shape or arity are first converted to a Petri net and then forwarded
\* to Petri net alignments (nothing is forwarded if the conversion fails).
C7_OneCallToMatchingEngine ==
    Routing /\ LogAccepted =>
        IF ExpectedEngine(inp.args) # "unrecognized"
        THEN /\ Len(AlignmentCalls) = 1
             /\ AlignmentCalls[1].fn = ExpectedEngine(inp.args)
             /\ calls[Len(calls)] = AlignmentCalls[1]
             /\ ~Has("convert_to_petri_net")
        ELSE IF inp.toNet
        THEN /\ Len(AlignmentCalls) = 1
             /\ AlignmentCalls[1].fn = "alignments.petri_net"
             /\ calls[Len(calls)] = AlignmentCalls[1]
             /\ calls[Len(calls) - 1].fn = "convert_to_petri_net"
        ELSE /\ Len(AlignmentCalls) = 0
             /\ calls[Len(calls)].fn = "convert_to_petri_net"

\* a Counter with start and end activities was sent to DFG alignments
C7_Witness ==
    /\ Routing /\ LogAccepted
    /\ Len(inp.args) = 3 /\ inp.args[1] = "Counter"
    /\ Len(AlignmentCalls) = 1
    /\ AlignmentCalls[1].fn = "alignments.dfg"
    /\ result = Return("diagnostics")

\* C8: every call to Petri net or process tree alignments asks for the
\* parallel variant exactly when the caller set multi_processing; DFG
\* alignments and token-based replay are always invoked the one serial way.
C8_ParallelVariant ==
    \A i \in 1..Len(calls) :
        /\ calls[i].fn \in {"alignments.petri_net", "alignments.process_tree"} =>
               (calls[i].variant = "apply_multiprocessing" <=> inp.multi_processing)
        /\ calls[i].fn \in {"alignments.dfg", "token_replay"} =>
               calls[i].variant = "apply" /\ calls[i].mp = "-"

\* a converted model was aligned in parallel because the flag was set
C8_Witness ==
    /\ Routing /\ inp.multi_processing
    /\ Has("convert_to_petri_net")
    /\ Len(AlignmentCalls) = 1
    /\ AlignmentCalls[1].variant = "apply_multiprocessing"

----------------------------------------------------------------------------
(* Validation and unsupported models *)

LogEntryPoints ==
    {"conformance_diagnostics_token_based_replay", "conformance_diagnostics_alignments",
     "fitness_token_based_replay", "fitness_alignments",
     "precision_token_based_replay", "precision_alignments",
     "conformance_temporal_profile", "conformance_log_skeleton"}

RecognizedLogs == {"DataFrame", "EventLog", "EventStream"}

\* C9 as stated: at every entry point, the one-trace fitness check included,
\* an input that is no recognized log (for check_is_fitting: neither a trace
\* nor a variant, given with a model that is supported) fails before anything
\* else, model conversion included, has been invoked.
C9_EveryEntryPointValidatesFirst ==
    \/ op \in LogEntryPoints /\ inp.log \notin RecognizedLogs
    \/ Fitting /\ inp.traceKind = "other" /\ inp.toNet
    => /\ calls = <<>>
       /\ (pc = "done" => result.kind = "raise")

\* C9 amended: at the eight entry points that take a log, a log of an
\* unrecognized type raises with nothing invoked before; for a table the
\* column check is the first thing invoked, and missing columns raise with
\* nothing invoked after it.  check_is_fitting validates nothing up front:
\* model conversion is the first thing it invokes.
C9_LogEntryPointsValidateFirst ==
    /\ op \in LogEntryPoints =>
        /\ (inp.log \notin RecognizedLogs =>
                calls = <<>> /\ result = Raise("log_type"))
        /\ (inp.log = "DataFrame" =>
                calls[1].fn = "check_pandas_dataframe_columns")
        /\ (inp.log = "DataFrame" /\ ~inp.columns =>
                Len(calls) = 1 /\ result = Raise("columns"))
    /\ Fitting /\ calls # <<>> => calls[1].fn = "convert_to_process_tree"

\* log-skeleton conformance was handed a single Trace and raised at once
C9_Witness ==
    /\ op = "conformance_log_skeleton" /\ pc = "done"
    /\ inp.log = "Trace"
    /\ calls = <<>>
    /\ result = Raise("log_type")

\* C10: check_is_fitting, called with a trace argument, on a model that converts neither to a process tree
\* nor to a Petri net ends with the conversion error, and whatever it returns
\* is a boolean; conformance_diagnostics_alignments on unrecognized model
\* arguments that do not convert ends with the conversion error and has
\* invoked no alignment engine.
C10_UnsupportedModelRaises ==
    /\ Fitting /\ pc = "done" /\ inp.traceKind # "missing" =>
        /\ (~inp.toTree /\ ~inp.toNet => result = Raise("convert"))
        /\ (result.kind = "return" => result.val \in {"True", "False"})
    /\ Routing /\ LogAccepted /\ ExpectedEngine(inp.args) = "unrecognized" /\ ~inp.toNet =>
        result = Raise("convert") /\ Len(AlignmentCalls) = 0

\* check_is_fitting was given a BPMN-typed argument that converts to nothing
C10_Witness ==
    /\ Fitting /\ pc = "done"
    /\ Len(inp.args) = 1 /\ inp.args[1] = "BPMN"
    /\ ~inp.toTree /\ ~inp.toNet
    /\ result = Raise("convert")
    /\ Len(calls) = 2

----------------------------------------------------------------------------
(* The activity key inside check_is_fitting *)

TierPcs == {"tree_footprints", "tree_replay", "tree_align",
            "net_labels", "net_replay", "net_align"}

\* the collaborator invocations that read the activities of the trace
ReadsTrace(c) ==
    \/ c.fn = "discover_footprints" /\ c.variant = "log"
    \/ c.fn = "token_replay"
    \/ c.fn \in AlignmentEngines

\* C11: within a call of check_is_fitting a variant is promoted to one event
\* per activity, in order, each holding the activity under the configured
\* activity key, and every collaborator that reads the trace (footprint
\* discovery, replay, alignment) is made to read it under that same key.
C11_ConfiguredKeyThroughout ==
    Fitting =>
        /\ (inp.traceKind = "variant" /\ pc \in TierPcs =>
               /\ Len(trace) = Len(inp.traceArg)
               /\ \A i \in 1..Len(trace) :
                      /\ DOMAIN trace[i] = {inp.activity_key}
                      /\ trace[i][inp.activity_key] = inp.traceArg[i])
        /\ \A i \in 1..Len(calls) :
               ReadsTrace(calls[i]) => calls[i].key = inp.activity_key

----------------------------------------------------------------------------
(* Errors of the collaborators *)

\* C12: once a collaborator (footprint discovery or comparison, replay,
\* alignment, the conversion to a Petri net) has raised, the call is over and
\* its outcome is that very exception: no verdict, no list handed back, no
\* collaborator invoked after the one that raised, and the invocation that
\* raised is not made a second time.
C12_CollaboratorErrorSurfaces ==
    raised # NoError =>
        /\ pc = "done"
        /\ result = Raise(raised.error)
        /\ output = <<>>
        /\ calls # <<>>
        /\ calls[Len(calls)].fn = raised.by
        /\ \A i \in 1..(Len(calls) - 1) : calls[i] # calls[Len(calls)]

\* alignment raises as the third tier of the hierarchical path
C12_Witness ==
    /\ Fitting
    /\ raised = [by |-> "alignments.process_tree", error |-> "engine"]
    /\ fp_conf_res = "True"
    /\ tbr_conf_res = "False"
    /\ result = Raise("engine")

----------------------------------------------------------------------------
(* Order of the diagnostics *)

\* C13: the list returned by replay diagnostics and by alignment diagnostics
\* has one entry per trace of the log, entry i being the result of trace i,
\* whatever the order in which the workers of the parallel engine finished.
C13_OutputInTraceOrder ==
    /\ op \in {"conformance_diagnostics_token_based_replay",
               "conformance_diagnostics_alignments"}
    /\ pc = "done"
    /\ result.kind = "return"
    => /\ Len(output) = Len(inp.traces)
       /\ \A i \in 1..Len(output) : output[i] = TraceResult(inp.traces[i])

\* two different traces aligned in parallel, the worker of the second
\* finishing first
C13_Witness ==
    /\ op = "conformance_diagnostics_alignments"
    /\ pc = "done"
    /\ result.kind = "return"
    /\ calls[Len(calls)].variant = "apply_multiprocessing"
    /\ inp.traces = <<"t1", "t2">>
    /\ inp.order = <<2, 1>>
    /\ output = <<TraceResult("t1"), TraceResult("t2")>>

----------------------------------------------------------------------------
(* Temporal profile *)

Abs(x) == IF x < 0 THEN -x ELSE x

\* the tolerance the caller asked for: the zeta argument, 1.0 when left out
CallerZeta == IF inp.zeta = <<>> THEN 1 ELSE inp.zeta[1]

\* C14: temporal profile conformance hands the caller's zeta (1.0 when left
\* out) to the engine in the configuration, and two events of a case, a before
\* b, are reported as a deviation exactly when the profile has an entry for
\* (a, b) and |observed gap - mean| > zeta * stdev; a pair without an entry in
\* the profile is never reported.
C14_TemporalDeviation ==
    /\ op = "conformance_temporal_profile"
    /\ pc = "done"
    /\ result.kind = "return"
    => /\ calls[Len(calls)].zeta = CallerZeta
       /\ Len(output) = 1
       /\ \A i, j \in 1..Len(inp.case) :
              i < j =>
                  (<<i, j>> \in output[1].deviations
                   <=> \E e \in inp.profile :
                           /\ e.a = inp.case[i].act
                           /\ e.b = inp.case[j].act
                           /\ Abs((inp.case[j].time - inp.case[i].time) - e.mean)
                                  > CallerZeta * e.stdev)

\* a gap of 3 against a mean of 1 and a deviation of 1 is reported under the
\* default zeta; the caller left zeta out
C14_Witness ==
    /\ op = "conformance_temporal_profile"
    /\ pc = "done"
    /\ result.kind = "return"
    /\ inp.zeta = <<>>
    /\ inp.profile = {[a |-> "a", b |-> "b", mean |-> 1, stdev |-> 1]}
    /\ inp.case = <<[act |-> "a", time |-> 0], [act |-> "b", time |-> 3]>>
    /\ output = <<[deviations |-> {<<1, 2>>}]>>

----------------------------------------------------------------------------
(* Order of the tiers *)

\* how many invocations of the collaborators fns the call has made
Count(fns) == Cardinality({i \in 1..Len(calls) : calls[i].fn \in fns})

\* an invocation of a collaborator of `first` comes before every invocation
\* of a collaborator of `then`
Precedes(first, then) ==
    \A j \in 1..Len(calls) :
        calls[j].fn \in then => \E i \in 1..(j - 1) : calls[i].fn \in first

\* the tiers of the cascade run in order, each at most once, each only
\* after the one before it was inconclusive; a verdict exists only once the
\* call is over, and a call that is not over can take its next step
TierOrder ==
    /\ Count({"footprints_conformance"}) <= 1
    /\ Count({"token_replay"}) <= 1
    /\ Count(AlignmentEngines) <= 1
    /\ (Has("token_replay") =>
           IF model = "ProcessTree"
           THEN /\ fp_conf_res = "True"
                /\ Precedes({"footprints_conformance"}, {"token_replay"})
           ELSE /\ model = "PetriNet"
                /\ KeyedTrace
                /\ MissingLabels = {}
                /\ ~Has("footprints_conformance"))
    /\ (HasAlignment =>
           /\ tbr_conf_res = "False"
           /\ Precedes({"token_replay"}, AlignmentEngines))
    /\ (result.kind = "return" => pc = "done")
    /\ (pc # "done" => result = Pending /\ ENABLED Next)

\* C15 as stated: in a call of check_is_fitting footprint comparison, replay
\* and alignment are each invoked at most once; replay is invoked only after
\* the check before it has passed; alignment is invoked only after replay has
\* been invoked and has answered not fit; and every call that is over without
\* a collaborator having raised has the verdict True or False.
C15_EveryCallEndsInVerdict ==
    Fitting =>
        /\ TierOrder
        /\ (pc = "done" /\ raised = NoError
               => result \in {Return("True"), Return("False")})

\* C15, the verdict limited to well-formed calls: the tiers run as above, and
\* a call that is over without a collaborator having raised has the verdict
\* True or False if it was given a trace argument and, on the procedural
\* path, every event of the trace carries the configured activity attribute;
\* otherwise it has ended with the IndexError of args[0] or the KeyError of
\* x[activity_key].
C15_TiersSequential ==
    Fitting =>
        /\ TierOrder
        /\ (pc = "done" /\ raised = NoError =>
               IF inp.traceKind = "missing" THEN result = Raise("IndexError")
               ELSE IF model = "PetriNet" /\ ~KeyedTrace THEN result = Raise("KeyError")
               ELSE result \in {Return("True"), Return("False")})

\* all three tiers of the hierarchical path have run, one after the other,
\* and the call has its verdict
C15_Witness ==
    /\ OnTreePath
    /\ pc = "done"
    /\ raised = NoError
    /\ Count({"footprints_conformance"}) = 1
    /\ Count({"token_replay"}) = 1
    /\ Count(AlignmentEngines) = 1
    /\ result = Return("False")

----------------------------------------------------------------------------
(* The footprint bridge *)

\* an object with every enclosing one-element tuple taken off
RECURSIVE Unwrapped(_)
Unwrapped(o) ==
    IF o.type = "tuple" /\ Len(o.items) = 1 THEN Unwrapped(o.items[1]) ELSE o

\* the number of one-element tuples around an object
RECURSIVE Wrappers(_)
Wrappers(o) ==
    IF o.type = "tuple" /\ Len(o.items) = 1 THEN 1 + Wrappers(o.items[1]) ELSE 0

ConvertingToFp == op = "__convert_to_fp"

\* what a finished call of __convert_to_fp has done with its argument
FpOutcome ==
    LET u == Unwrapped(inp.fpArg)
    IN  /\ fp_args = u
        /\ IF u.type \in {"list", "dict"}
           THEN calls = <<>> /\ result = Return("args")
           ELSE /\ calls = <<Call("discover_footprints",
                                  IF u.type = "tuple" THEN "*args" ELSE "args", "-", "-")>>
                /\ result = (IF raised = NoError THEN Return("fp")
                             ELSE Raise(raised.error))

\* C16: __convert_to_fp terminates (every iteration of its loop takes one
\* one-element tuple off the argument, and an unfinished call can always take
\* its next step) and invokes footprint discovery at most once: with every
\* nesting of one-element tuples taken off, a list or a dict is returned as it
\* is with no discovery, a tuple of another length is handed to discovery
\* element by element, and any other object is handed to discovery as the one
\* argument.
C16_FootprintBridge ==
    /\ [](ConvertingToFp =>
             /\ Count({"discover_footprints"}) <= 1
             /\ (pc = "done" => FpOutcome)
             /\ (pc # "done" => ENABLED Next))
    /\ [][ConvertingToFp /\ pc = "fp_while" /\ pc' = "fp_while"
             => Wrappers(fp_args') < Wrappers(fp_args)]_vars

\* footprints wrapped in two one-element tuples come back unchanged and
\* discovery was not invoked
C16_Witness ==
    /\ ConvertingToFp
    /\ pc = "done"
    /\ inp.fpArg = Object("tuple", <<Object("tuple", <<Object("dict", <<>>)>>)>>)
    /\ fp_args = Object("dict", <<>>)
    /\ calls = <<>>
    /\ result = Return("args")

====
